---- MODULE Spec2Model ----
(***************************************************************************)
(* Five Crowns meld engine (meldFinder), its scoring helpers and the Meld *)
(* Helper screen that drives them.                                         *)
(*                                                                         *)
(* A card is a record [suit, rank].  A hand is a sequence of cards; the    *)
(* position of a card in the hand is its physical instance (the object     *)
(* identity of the TypeScript code).  A meld is a record [type, cards]     *)
(* whose cards are hand positions, in the order the code lists them.       *)
(***************************************************************************)
EXTENDS Integers, Sequences, FiniteSets

VARIABLES cards, round, isFinalTurn,
          phase, players, currentRound, currentPlayerIndex, dealerIndex, deck,
          discardPile, playerHands, roundEnded, finalTurnsTaken, scores,
          wentOutPlayerIndex, playersWhoWentOut, drawnCard

\* the state of the Meld Helper screen and the state of the game reducer; the
\* application mounts one of the two screens at a time, so a step of one leaves
\* the state of the other alone
helperVars == <<cards, round, isFinalTurn>>
gameVars ==
  <<phase, players, currentRound, currentPlayerIndex, dealerIndex, deck,
    discardPile, playerHands, roundEnded, finalTurnsTaken, scores,
    wentOutPlayerIndex, playersWhoWentOut, drawnCard>>

vars == <<helperVars, gameVars>>

---------------------------------------------------------------------------
(* Bounds of the model *)

\* longest hand the Meld Helper is driven to under Spec
MaxHand == 4

\* longest hand under SpecDeep
MaxDeep == 7

Card(s, r) == [suit |-> s, rank |-> r]

\* the cards the Add Card selectors are driven to under Spec, and the rounds
\* the round selector is driven to
Pool ==
  {Card("hearts", "3"), Card("hearts", "4"), Card("hearts", "5"), Card("hearts", "6"),
   Card("hearts", "Q"), Card("hearts", "K"),
   Card("clubs", "4"), Card("clubs", "5"), Card("clubs", "Joker")}
PoolRounds == {"5", "K"}

\* the cards and the round of SpecPlain: no card of the pool is wild
PlainPool ==
  {Card("spades", "3"), Card("spades", "J"), Card("spades", "Q"), Card("spades", "K"),
   Card("diamonds", "4"), Card("diamonds", "5"), Card("diamonds", "6")}
PlainRound == "7"

\* longest hand under SpecMid
MaxMid == 5

\* the cards and the round of SpecMid
MidPool ==
  {Card("clubs", "4"), Card("clubs", "5"), Card("hearts", "5"), Card("hearts", "Q"),
   Card("clubs", "Joker")}
MidRound == "8"

\* the cards and the round of SpecSmall: two wild cards, three cards that are not
SmallPool ==
  {Card("clubs", "K"), Card("clubs", "4"), Card("hearts", "Q"), Card("hearts", "5"),
   Card("clubs", "Joker")}
SmallRound == "5"

\* longest hand under SpecCards
MaxShown == 1

\* most players, and most draws from the deck before a player goes out, under
\* SpecGame
MaxPlayers == 3
MaxDeckDraws == 1

\* longest hand under SpecLong
MaxLong == 13

\* SpecLong: the saved hands are the hearts from a low to a high rank, in rank
\* order, whole or with one rank taken out; Jokers are added to them
LongLow == {1, 2, 3}
LongHigh == {9, 10, 11}
LongPool == {Card("clubs", "Joker")}
LongRound == "7"

\* the discard candidates the discard-card selectors are driven to
DiscardPool ==
  {Card("hearts", "Q"), Card("spades", "10"), Card("hearts", "5"), Card("hearts", "K"),
   Card("clubs", "Joker")}

\* the cards and the round of SpecDeep
DeepPool ==
  {Card("clubs", "4"), Card("clubs", "5"), Card("clubs", "6"),
   Card("hearts", "8"), Card("hearts", "10"), Card("clubs", "Joker")}
DeepRound == "3"

---------------------------------------------------------------------------
(* Card / round model *)

SUITS == <<"clubs", "diamonds", "hearts", "spades", "stars">>

RANK_ORDER == <<"3", "4", "5", "6", "7", "8", "9", "10", "J", "Q", "K">>

RANKS == RANK_ORDER \o <<"Joker">>

ROUNDS == RANK_ORDER

\* RANK_ORDER.indexOf(rank): 0-based, -1 when absent (Joker)
RankIndex(rank) ==
  IF \E i \in 1..Len(RANK_ORDER) : RANK_ORDER[i] = rank
  THEN (CHOOSE i \in 1..Len(RANK_ORDER) : RANK_ORDER[i] = rank) - 1
  ELSE -1

LastRankIndex == Len(RANK_ORDER) - 1

isWildCard(card, rnd) == card.rank = rnd \/ card.rank = "Joker"

\* parseInt(card.rank) for the numeric ranks, NaN (modelled as -1) otherwise
ParseInt(rank) ==
  IF rank \in {"J", "Q", "K", "Joker"} THEN -1 ELSE RankIndex(rank) + 3

\* a faulty variant that tests the face cards before the round's rank
calculateCardPointsFaceFirst(card, rnd) ==
  IF card.rank = "Joker" THEN 50
  ELSE IF card.rank = "J" THEN 11
  ELSE IF card.rank = "Q" THEN 12
  ELSE IF card.rank = "K" THEN 13
  ELSE IF card.rank = rnd THEN 20
  ELSE IF ParseInt(card.rank) # -1 THEN ParseInt(card.rank)
  ELSE 0

calculateCardPoints(card, rnd) ==
  IF card.rank = "Joker" THEN 50
  ELSE IF card.rank = rnd THEN 20
  ELSE IF card.rank = "J" THEN 11
  ELSE IF card.rank = "Q" THEN 12
  ELSE IF card.rank = "K" THEN 13
  ELSE IF ParseInt(card.rank) # -1 THEN ParseInt(card.rank)
  ELSE 0

---------------------------------------------------------------------------
(* Sequence helpers *)

Range(s) == {s[i] : i \in 1..Len(s)}

Min(S) == CHOOSE x \in S : \A y \in S : x <= y

RECURSIVE SetToSeq(_)
\* the integers of S in ascending order
SetToSeq(S) == IF S = {} THEN <<>> ELSE <<Min(S)>> \o SetToSeq(S \ {Min(S)})

RECURSIVE Flatten(_)
Flatten(ss) == IF ss = <<>> THEN <<>> ELSE Head(ss) \o Flatten(Tail(ss))

\* s without its element at position i (Array.filter((_, idx) => idx !== i))
RemoveAt(s, i) == [k \in 1..(Len(s) - 1) |-> IF k < i THEN s[k] ELSE s[k + 1]]

\* s.slice(0, n)
Prefix(s, n) == SubSeq(s, 1, n)

SameCard(a, b) == a.suit = b.suit /\ a.rank = b.rank

\* positions of the hand whose card is wild / not wild, in hand order
WildIdx(hand, rnd) == SetToSeq({i \in 1..Len(hand) : isWildCard(hand[i], rnd)})
RegularIdx(hand, rnd) == SetToSeq({i \in 1..Len(hand) : ~isWildCard(hand[i], rnd)})

---------------------------------------------------------------------------
(* Matching meld cards to hand positions *)

\* the test the code applies between hand position i and meld card j
\*   byWild = FALSE: same object or same suit and rank
\*   byWild = TRUE : ... or both cards wild
CardMatches(hand, rnd, byWild, i, j) ==
  \/ i = j
  \/ SameCard(hand[i], hand[j])
  \/ (byWild /\ isWildCard(hand[i], rnd) /\ isWildCard(hand[j], rnd))

RECURSIVE MatchFirstUnused(_, _, _, _, _, _)
\* "find the first unused index for this card", card after card; the matched
\* positions in order, or found = FALSE when some card has no position left
MatchFirstUnused(hand, rnd, byWild, mcards, k, acc) ==
  IF k > Len(mcards) THEN [found |-> TRUE, idx |-> acc]
  ELSE LET cand == {i \in 1..Len(hand) :
                      i \notin Range(acc) /\ CardMatches(hand, rnd, byWild, i, mcards[k])}
       IN IF cand = {} THEN [found |-> FALSE, idx |-> <<>>]
          ELSE MatchFirstUnused(hand, rnd, byWild, mcards, k + 1, Append(acc, Min(cand)))

RECURSIVE MatchDirectFirst(_, _, _, _, _, _, _)
\* the Selector's and the full-hand check's matching: the meld card's own
\* position when still available, otherwise the first available position that
\* matches it
MatchDirectFirst(hand, rnd, byWild, mcards, k, avail, acc) ==
  IF k > Len(mcards) THEN [found |-> TRUE, idx |-> acc]
  ELSE LET j == mcards[k]
           cand == {i \in avail :
                      \/ SameCard(hand[i], hand[j])
                      \/ (byWild /\ isWildCard(hand[i], rnd) /\ isWildCard(hand[j], rnd))}
       IN IF j \in avail
          THEN MatchDirectFirst(hand, rnd, byWild, mcards, k + 1, avail \ {j}, Append(acc, j))
          ELSE IF cand = {} THEN [found |-> FALSE, idx |-> <<>>]
          ELSE MatchDirectFirst(hand, rnd, byWild, mcards, k + 1,
                                avail \ {Min(cand)}, Append(acc, Min(cand)))

\* a dedupe key is the sorted index list the code joins into a string; the
\* empty string (no key) is the empty list
NoKey == <<>>

\* idx.sort((a, b) => a - b) for a list of hand positions, repetitions kept
RECURSIVE SortIdx(_)
SortIdx(s) ==
  IF s = <<>> THEN <<>>
  ELSE LET m == Min(Range(s))
           p == Min({k \in 1..Len(s) : s[k] = m})
       IN <<m>> \o SortIdx(RemoveAt(s, p))

\* push every candidate from the k-th on whose key is present and not seen
\* yet: a candidate is new when its key is neither in seen nor the key of an
\* earlier candidate; cands is a sequence of [cards, key]; the result is
\* [out, seen]
KeepNew(cands, k, seen, out) ==
  LET new == {i \in k..Len(cands) :
                /\ cands[i].key # NoKey
                /\ cands[i].key \notin seen
                /\ \A j \in k..(i - 1) : cands[j].key # cands[i].key}
      order == SetToSeq(new)
  IN [out |-> out \o [n \in 1..Len(order) |-> cands[order[n]].cards],
      seen |-> seen \cup {cands[i].key : i \in new}]

---------------------------------------------------------------------------
(* Meld Enumerator: books *)

\* the key of a book: the positions its cards resolve to
BookKey(hand, rnd, bookCards) ==
  LET m == MatchFirstUnused(hand, rnd, FALSE, bookCards, 1, <<>>)
  IN IF m.found /\ Len(m.idx) = Len(bookCards) THEN SortIdx(m.idx) ELSE NoKey

\* the ranks of the regular cards, in order of first appearance (Map order)
RankGroupOrder(hand, rnd) ==
  LET reg == RegularIdx(hand, rnd)
      firsts == {i \in Range(reg) : \A j \in Range(reg) : hand[j].rank = hand[i].rank => i <= j}
  IN [k \in 1..Cardinality(firsts) |-> hand[SetToSeq(firsts)[k]].rank]

\* a faulty rank group that keeps one card per suit and rank, as if equal cards
\* were one card
RankGroupByValue(hand, rnd, rank) ==
  SetToSeq({i \in 1..Len(hand) :
              /\ ~isWildCard(hand[i], rnd) /\ hand[i].rank = rank
              /\ \A j \in 1..(i - 1) : ~SameCard(hand[j], hand[i])})

RankGroup(hand, rnd, rank) ==
  SetToSeq({i \in 1..Len(hand) : ~isWildCard(hand[i], rnd) /\ hand[i].rank = rank})

\* a faulty variant that never tries a book without a wild card
GroupBookCandidatesWithWild(hand, rnd, rank) ==
  LET groupCards == RankGroup(hand, rnd, rank)
      wildCards == WildIdx(hand, rnd)
      tries == SetToSeq({w \in 1..Len(wildCards) : Len(groupCards) + w >= 3})
  IN [k \in 1..Len(tries) |->
        LET bookCards == groupCards \o Prefix(wildCards, tries[k])
        IN [cards |-> bookCards, key |-> BookKey(hand, rnd, bookCards)]]

\* the books tried for one rank group: numWilds = 0 .. wildCards.length
GroupBookCandidates(hand, rnd, rank) ==
  LET groupCards == RankGroup(hand, rnd, rank)
      wildCards == WildIdx(hand, rnd)
      totalAvailable == Len(groupCards) + Len(wildCards)
      tries == SetToSeq({w \in 0..Len(wildCards) : Len(groupCards) + w >= 3})
  IN IF totalAvailable >= 3
     THEN [k \in 1..Len(tries) |->
             LET bookCards == groupCards \o Prefix(wildCards, tries[k])
             IN [cards |-> bookCards, key |-> BookKey(hand, rnd, bookCards)]]
     ELSE <<>>

\* a faulty variant that starts the all-wild books at four cards
AllWildBookCandidatesFromFour(hand, rnd) ==
  LET wildCards == WildIdx(hand, rnd)
  IN [k \in 1..(Len(wildCards) - 3) |->
        LET bookCards == Prefix(wildCards, k + 3)
        IN [cards |-> bookCards, key |-> BookKey(hand, rnd, bookCards)]]

\* the all-wild books tried: bookSize = 3 .. wildCards.length
AllWildBookCandidates(hand, rnd) ==
  LET wildCards == WildIdx(hand, rnd)
  IN IF Len(wildCards) >= 3
     THEN [k \in 1..(Len(wildCards) - 2) |->
             LET bookCards == Prefix(wildCards, k + 2)
             IN [cards |-> bookCards, key |-> BookKey(hand, rnd, bookCards)]]
     ELSE <<>>

findBooks(hand, rnd) ==
  LET order == RankGroupOrder(hand, rnd)
      cands == Flatten([g \in 1..Len(order) |-> GroupBookCandidates(hand, rnd, order[g])])
                 \o AllWildBookCandidates(hand, rnd)
      kept == KeepNew(cands, 1, {}, <<>>).out
  IN [k \in 1..Len(kept) |-> [type |-> "book", cards |-> kept[k]]]

---------------------------------------------------------------------------
(* Meld Enumerator: runs *)

\* the suits of the suitGroups map in insertion order: a wild card enters all
\* five suits, a regular card its own
RECURSIVE SuitGroupOrder(_, _, _, _)
SuitGroupOrder(hand, rnd, k, acc) ==
  IF k > Len(hand) THEN acc
  ELSE LET add == IF isWildCard(hand[k], rnd)
                  THEN SelectSeq(SUITS, LAMBDA s : s \notin Range(acc))
                  ELSE IF hand[k].suit \in Range(acc) THEN <<>> ELSE <<hand[k].suit>>
       IN SuitGroupOrder(hand, rnd, k + 1, acc \o add)

\* the cards of one suit group, in hand order
SuitGroup(hand, rnd, suit) ==
  SetToSeq({i \in 1..Len(hand) : isWildCard(hand[i], rnd) \/ hand[i].suit = suit})

\* regularCards.sort by RANK_ORDER index (stable)
SortByRank(hand, idxs) ==
  LET n == Len(idxs)
      codes == {(RankIndex(hand[idxs[p]].rank) + 1) * (n + 1) + p : p \in 1..n}
      sorted == SetToSeq(codes)
  IN [k \in 1..n |-> idxs[sorted[k] % (n + 1)]]

\* the pairs (i, j), 1 <= i, i + gap <= j <= n, in the order of the nested loops
LoopPairs(n, gap) ==
  LET codes == SetToSeq({c \in {i * (n + 1) + j : i \in 1..n, j \in 1..n} :
                           c % (n + 1) >= (c \div (n + 1)) + gap})
  IN [k \in 1..Len(codes) |-> <<codes[k] \div (n + 1), codes[k] % (n + 1)>>]

\* getRunKey
getRunKey(hand, rnd, runCards) ==
  LET m == MatchFirstUnused(hand, rnd, TRUE, runCards, 1, <<>>)
  IN IF m.found THEN SortIdx(m.idx) ELSE NoKey

RunCandidate(hand, rnd, runCards) ==
  [cards |-> runCards, key |-> getRunKey(hand, rnd, runCards)]

\* a faulty variant that reads the ranks as a circle, so that 3 follows K:
\* the slice is accepted when it is consecutive from some card of it onwards
isConsecutiveWrapping(hand, rp, i, j) ==
  LET n == j - i + 1
      at(t) == RankIndex(hand[rp[i + (t % n)]].rank)
  IN \E s \in 0..(n - 1) :
       \A t \in 0..(n - 2) :
         /\ at(s + t) # -1 /\ at(s + t + 1) # -1
         /\ (at(s + t + 1) - at(s + t)) % Len(RANK_ORDER) = 1

\* "Find all consecutive sequences (without gaps)"
isConsecutive(hand, rp, i, j) ==
  \A k \in i..(j - 1) :
    LET currentIndex == RankIndex(hand[rp[k]].rank)
        nextIndex == RankIndex(hand[rp[k + 1]].rank)
    IN currentIndex # -1 /\ nextIndex # -1 /\ nextIndex - currentIndex = 1

ConsecutiveCandidates(hand, rnd, rp) ==
  LET pairs == SelectSeq(LoopPairs(Len(rp), 2), LAMBDA p : isConsecutive(hand, rp, p[1], p[2]))
  IN [k \in 1..Len(pairs) |-> RunCandidate(hand, rnd, SubSeq(rp, pairs[k][1], pairs[k][2]))]

\* a faulty variant of the gap-fill condition that keeps one wild card back
GapFillOkSpareWild(hand, rp, wildCards, i, j) ==
  LET startIndex == RankIndex(hand[rp[i]].rank)
      endIndex == RankIndex(hand[rp[j]].rank)
      wildsNeeded == (endIndex - startIndex + 1) - (j - i + 1)
  IN /\ startIndex # -1 /\ endIndex # -1
     /\ startIndex < endIndex
     /\ wildsNeeded >= 0 /\ wildsNeeded < Len(wildCards)

\* Strategy 1: fill gaps in sequences
GapFillOk(hand, rp, wildCards, i, j) ==
  LET startIndex == RankIndex(hand[rp[i]].rank)
      endIndex == RankIndex(hand[rp[j]].rank)
      totalCardsNeeded == endIndex - startIndex + 1
      cardsWeHave == j - i + 1
      wildsNeeded == totalCardsNeeded - cardsWeHave
  IN /\ startIndex # -1 /\ endIndex # -1
     /\ startIndex < endIndex
     /\ wildsNeeded >= 0 /\ wildsNeeded <= Len(wildCards) /\ totalCardsNeeded >= 3

GapFillSequence(hand, rp, wildCards, i, j) ==
  LET wildsNeeded == (RankIndex(hand[rp[j]].rank) - RankIndex(hand[rp[i]].rank) + 1) - (j - i + 1)
  IN <<rp[i]>> \o SubSeq(rp, i + 1, j - 1) \o Prefix(wildCards, wildsNeeded) \o <<rp[j]>>

GapFillCandidates(hand, rnd, rp, wildCards) ==
  LET pairs == SelectSeq(LoopPairs(Len(rp), 1),
                         LAMBDA p : /\ GapFillOk(hand, rp, wildCards, p[1], p[2])
                                    /\ Len(GapFillSequence(hand, rp, wildCards, p[1], p[2])) >= 3)
  IN [k \in 1..Len(pairs) |->
        RunCandidate(hand, rnd, GapFillSequence(hand, rp, wildCards, pairs[k][1], pairs[k][2]))]

\* Strategy 2: extend 2-card consecutive sequences with one wild card
PairExtendCandidates(hand, rnd, rp, wildCards) ==
  Flatten([i \in 1..(Len(rp) - 1) |->
    LET index1 == RankIndex(hand[rp[i]].rank)
        index2 == RankIndex(hand[rp[i + 1]].rank)
        extendedAfter == <<rp[i], rp[i + 1]>> \o Prefix(wildCards, 1)
        extendedBefore == Prefix(wildCards, 1) \o <<rp[i], rp[i + 1]>>
    IN IF index1 # -1 /\ index2 # -1 /\ index2 - index1 = 1 /\ Len(wildCards) > 0
       THEN (IF index2 < LastRankIndex THEN <<RunCandidate(hand, rnd, extendedAfter)>> ELSE <<>>)
            \o (IF index1 > 0 THEN <<RunCandidate(hand, rnd, extendedBefore)>> ELSE <<>>)
       ELSE <<>>])

\* Strategy 3: extend the runs found so far with one wild card not yet in the run
\* a faulty variant that extends a run without looking at its end ranks
RunExtendCandidatesAnyEnd(hand, rnd, wildCards, run) ==
  LET runRegular == SelectSeq(run, LAMBDA c : ~isWildCard(hand[c], rnd))
      unusedWilds == SelectSeq(wildCards, LAMBDA wc : wc \notin Range(run))
  IN IF Len(runRegular) = 0 \/ Len(unusedWilds) <= 0 THEN <<>>
     ELSE <<RunCandidate(hand, rnd, <<unusedWilds[1]>> \o run),
            RunCandidate(hand, rnd, run \o <<unusedWilds[1]>>)>>

RunExtendCandidates(hand, rnd, wildCards, run) ==
  LET runRegular == SelectSeq(run, LAMBDA c : ~isWildCard(hand[c], rnd))
      unusedWilds == SelectSeq(wildCards, LAMBDA wc : wc \notin Range(run))
      firstIndex == RankIndex(hand[runRegular[1]].rank)
      lastIndex == RankIndex(hand[runRegular[Len(runRegular)]].rank)
  IN IF Len(runRegular) = 0 \/ Len(unusedWilds) <= 0 THEN <<>>
     ELSE IF firstIndex = -1 \/ lastIndex = -1 THEN <<>>
     ELSE (IF firstIndex > 0
           THEN <<RunCandidate(hand, rnd, <<unusedWilds[1]>> \o run)>> ELSE <<>>)
          \o (IF lastIndex < LastRankIndex
              THEN <<RunCandidate(hand, rnd, run \o <<unusedWilds[1]>>)>> ELSE <<>>)

\* the runs of one suit group, as lists of hand positions
findRunsInSuit(hand, rnd, suitCards) ==
  LET regularCards == SortByRank(hand, SelectSeq(suitCards, LAMBDA c : ~isWildCard(hand[c], rnd)))
      wildCards == SelectSeq(suitCards, LAMBDA c : isWildCard(hand[c], rnd))
      plain == KeepNew(ConsecutiveCandidates(hand, rnd, regularCards), 1, {}, <<>>)
      useWilds == Len(wildCards) > 0 /\ Len(regularCards) > 0
      filled == KeepNew(GapFillCandidates(hand, rnd, regularCards, wildCards)
                          \o PairExtendCandidates(hand, rnd, regularCards, wildCards),
                        1, plain.seen, plain.out)
      extendedRuns == KeepNew(Flatten([k \in 1..Len(filled.out) |->
                                         RunExtendCandidates(hand, rnd, wildCards, filled.out[k])]),
                              1, filled.seen, <<>>)
  IN IF useWilds THEN filled.out \o extendedRuns.out ELSE plain.out

\* the key findRuns dedupes by: for every card of the run, all hand positions
\* holding that object or an equal suit and rank
RunsKey(hand, run) ==
  SortIdx(Flatten([k \in 1..Len(run) |->
            SetToSeq({i \in 1..Len(hand) : i = run[k] \/ SameCard(hand[i], hand[run[k]])})]))

findRuns(hand, rnd) ==
  LET order == SuitGroupOrder(hand, rnd, 1, <<>>)
      runsInSuits == Flatten([s \in 1..Len(order) |->
                                findRunsInSuit(hand, rnd, SuitGroup(hand, rnd, order[s]))])
      cands == [k \in 1..Len(runsInSuits) |->
                  [cards |-> runsInSuits[k], key |-> RunsKey(hand, runsInSuits[k])]]
      kept == KeepNew(cands, 1, {}, <<>>).out
  IN [k \in 1..Len(kept) |-> [type |-> "run", cards |-> kept[k]]]

\* what a caller can pass as a hand: an array of cards, or a value that is not
\* an array (null, undefined, a plain object)
ArrayInput(hand) == [kind |-> "array", items |-> hand]
NotArrayInputs == {[kind |-> k, items |-> <<>>] : k \in {"null", "undefined", "object"}}

findMelds(hand, rnd) ==
  IF Len(hand) < 3 THEN <<>> ELSE findBooks(hand, rnd) \o findRuns(hand, rnd)

\* a faulty variant in which the rank sort is applied to the hand array itself
HandAfterSortInPlace(hand, rnd) ==
  LET order == SortByRank(hand, SetToSeq(1..Len(hand)))
  IN [k \in 1..Len(hand) |-> hand[order[k]]]

\* the caller's hand array after a call of findMelds: findBooks and
\* findRunsInSuit work on copies made by filter, and only those are sorted
HandAfterFindMelds(hand, rnd) ==
  hand

\* findMelds with its input validation: !cards || !Array.isArray(cards)
findMeldsInput(input, rnd) ==
  IF input.kind # "array" THEN <<>> ELSE findMelds(input.items, rnd)

---------------------------------------------------------------------------
(* Meld Selector *)

\* the Selector matches by object or by suit and rank only: no round is involved
NoRound == ""

\* a faulty variant that leaves the melds in their input order
SortByInputOrder(melds) ==
  melds

\* [...melds].sort((a, b) => b.cards.length - a.cards.length), a stable sort
SortBySizeDesc(melds) ==
  LET n == Len(melds)
      big == 1 + n
      codes == {(big * 20) - Len(melds[p].cards) * big + p : p \in 1..n}
      sorted == SetToSeq(codes)
  IN [k \in 1..n |-> melds[sorted[k] % big]]

RECURSIVE SelectGreedy(_, _, _, _, _)
\* the loop over sortedMelds: [melds, avail]
SelectGreedy(hand, sortedMelds, k, avail, selected) ==
  IF k > Len(sortedMelds) THEN [melds |-> selected, avail |-> avail]
  ELSE LET m == MatchDirectFirst(hand, NoRound, FALSE, sortedMelds[k].cards, 1, avail, <<>>)
       IN IF m.found
          THEN SelectGreedy(hand, sortedMelds, k + 1, avail \ Range(m.idx),
                            Append(selected, sortedMelds[k]))
          ELSE SelectGreedy(hand, sortedMelds, k + 1, avail, selected)

findBestMeldCombination(hand, melds) ==
  IF Len(melds) = 0 THEN [melds |-> <<>>, usedCards |-> 0]
  ELSE LET r == SelectGreedy(hand, SortBySizeDesc(melds), 1, 1..Len(hand), <<>>)
       IN [melds |-> r.melds, usedCards |-> Len(hand) - Cardinality(r.avail)]

---------------------------------------------------------------------------
(* Go-Out Validator *)

RECURSIVE MatchAllMelds(_, _, _, _, _)
\* the loop of canAllCardsFormMelds over the melds in their given order: the
\* set of used positions, or ok = FALSE as soon as one meld cannot be matched
MatchAllMelds(hand, rnd, melds, k, avail) ==
  IF k > Len(melds) THEN [ok |-> TRUE, avail |-> avail]
  ELSE LET m == MatchDirectFirst(hand, rnd, TRUE, melds[k].cards, 1, avail, <<>>)
       IN IF m.found
          THEN MatchAllMelds(hand, rnd, melds, k + 1, avail \ Range(m.idx))
          ELSE [ok |-> FALSE, avail |-> avail]

canAllCardsFormMelds(hand, melds, rnd) ==
  IF Len(hand) = 0 THEN TRUE
  ELSE IF Len(melds) = 0 THEN FALSE
  ELSE LET r == MatchAllMelds(hand, rnd, melds, 1, 1..Len(hand))
       IN r.ok /\ Cardinality((1..Len(hand)) \ r.avail) = Len(hand)

\* PlayerTurn's canGoOutWithHand: success
\* a faulty variant that accepts a hand when all cards but one are melded, as
\* if the discard were still in the hand
canGoOutWithHandAllButOne(hand, melds) ==
  IF Len(hand) = 0 THEN FALSE
  ELSE IF Len(melds) = 0 THEN FALSE
  ELSE findBestMeldCombination(hand, melds).usedCards = Len(hand) - 1

canGoOutWithHand(hand, melds) ==
  IF Len(hand) = 0 THEN FALSE
  ELSE IF Len(melds) = 0 THEN FALSE
  ELSE findBestMeldCombination(hand, melds).usedCards = Len(hand)

\* PlayerTurn's handleTryGoOut: [success, discardIndex]; discardIndex is the
\* first hand position whose removal leaves a hand canGoOutWithHand accepts
handleTryGoOut(currentHand, rnd) ==
  LET ok == {d \in 1..Len(currentHand) :
               canGoOutWithHand(RemoveAt(currentHand, d), findMelds(RemoveAt(currentHand, d), rnd))}
  IN IF Len(currentHand) = 0 \/ ok = {}
     THEN [success |-> FALSE, discardIndex |-> 0]
     ELSE [success |-> TRUE, discardIndex |-> Min(ok)]

\* positions of the hand the helper marks used for the chosen melds
RECURSIVE HelperUsed(_, _, _, _)
HelperUsed(hand, meldCards, k, used) ==
  IF k > Len(meldCards) THEN used
  ELSE LET cand == {i \in 1..Len(hand) :
                      i \notin used /\ CardMatches(hand, NoRound, FALSE, i, meldCards[k])}
       IN HelperUsed(hand, meldCards, k + 1, IF cand = {} THEN used ELSE used \cup {Min(cand)})

\* a faulty variant without the early return for a hand with no melds
findBestMeldCombinationForHelperNoEarlyReturn(hand, rnd) ==
  LET allMelds == findMelds(hand, rnd)
      best == findBestMeldCombination(hand, allMelds)
      usedIndices == HelperUsed(hand, Flatten([k \in 1..Len(best.melds) |-> best.melds[k].cards]),
                                1, {})
      leftoverCards == SetToSeq((1..Len(hand)) \ usedIndices)
  IN IF Len(hand) = 0 THEN [melds |-> <<>>, leftoverCards |-> <<>>, canGoOut |-> FALSE]
     ELSE [melds |-> best.melds, leftoverCards |-> leftoverCards,
           canGoOut |-> Len(leftoverCards) <= 1]

findBestMeldCombinationForHelper(hand, rnd) ==
  LET allMelds == findMelds(hand, rnd)
      best == findBestMeldCombination(hand, allMelds)
      usedIndices == HelperUsed(hand, Flatten([k \in 1..Len(best.melds) |-> best.melds[k].cards]),
                                1, {})
      leftoverCards == SetToSeq((1..Len(hand)) \ usedIndices)
  IN IF Len(hand) = 0 THEN [melds |-> <<>>, leftoverCards |-> <<>>, canGoOut |-> FALSE]
     ELSE IF Len(allMelds) = 0
     THEN [melds |-> <<>>, leftoverCards |-> SetToSeq(1..Len(hand)), canGoOut |-> FALSE]
     ELSE [melds |-> best.melds, leftoverCards |-> leftoverCards,
           canGoOut |-> Len(leftoverCards) <= 1]

\* findBestMeldCombinationForHelper on any input: !hand gives the neutral result,
\* an array is processed, and [...hand] throws for a plain object, which has no
\* length and is not iterable
findBestMeldCombinationForHelperInput(input, rnd) ==
  IF input.kind \in {"null", "undefined"}
  THEN [outcome |-> "returned",
        value |-> [melds |-> <<>>, leftoverCards |-> <<>>, canGoOut |-> FALSE]]
  ELSE IF input.kind = "array"
  THEN [outcome |-> "returned", value |-> findBestMeldCombinationForHelper(input.items, rnd)]
  ELSE [outcome |-> "TypeError",
        value |-> [melds |-> <<>>, leftoverCards |-> <<>>, canGoOut |-> FALSE]]

---------------------------------------------------------------------------
(* Discard Advisor *)

getCardPoints(card, rnd) ==
  IF card.rank = "Joker" THEN 50
  ELSE IF isWildCard(card, rnd) THEN 20
  ELSE IF card.rank = "J" THEN 11
  ELSE IF card.rank = "Q" THEN 12
  ELSE IF card.rank = "K" THEN 13
  ELSE IF ParseInt(card.rank) = -1 THEN 0 ELSE ParseInt(card.rank)

\* list.reduce keeping the earlier card unless the later one has more points
HighestOf(hand, rnd, list) ==
  Min({i \in Range(list) :
         \A j \in Range(list) : getCardPoints(hand[j], rnd) <= getCardPoints(hand[i], rnd)})

\* a faulty variant of the lowest card that keeps the later of two equal cards
LowestOfLast(hand, rnd, list) ==
  CHOOSE i \in Range(list) :
    /\ \A j \in Range(list) : getCardPoints(hand[j], rnd) >= getCardPoints(hand[i], rnd)
    /\ \A j \in Range(list) : getCardPoints(hand[j], rnd) = getCardPoints(hand[i], rnd) => j <= i

\* list.reduce keeping the earlier card unless the later one has fewer points
LowestOf(hand, rnd, list) ==
  Min({i \in Range(list) :
         \A j \in Range(list) : getCardPoints(hand[j], rnd) >= getCardPoints(hand[i], rnd)})

\* Strategy 1: the first discard after which canAllCardsFormMelds accepts the
\* remaining hand; 0 when there is none
GoOutDiscard(hand, rnd) ==
  LET ok == {d \in 1..Len(hand) :
               /\ Len(hand) - 1 >= 3
               /\ canAllCardsFormMelds(RemoveAt(hand, d), findMelds(RemoveAt(hand, d), rnd), rnd)}
  IN IF ok = {} THEN 0 ELSE Min(ok)

\* a faulty variant that gives no card (null) for an all-wild hand on a
\* regular turn
NoMeldDiscardNoneForWilds(hand, rnd, finalTurn) ==
  LET all == SetToSeq(1..Len(hand))
      nonWildCards == RegularIdx(hand, rnd)
  IN IF finalTurn THEN HighestOf(hand, rnd, all)
     ELSE IF Len(nonWildCards) > 0 THEN HighestOf(hand, rnd, nonWildCards)
     ELSE 0

\* a faulty variant that keeps wild cards back on the final turn too
NoMeldDiscardKeepWild(hand, rnd, finalTurn) ==
  LET all == SetToSeq(1..Len(hand))
      nonWildCards == RegularIdx(hand, rnd)
  IN IF Len(nonWildCards) > 0 THEN HighestOf(hand, rnd, nonWildCards)
     ELSE LowestOf(hand, rnd, all)

\* Strategies 2 and 5: no card is in a meld
NoMeldDiscard(hand, rnd, finalTurn) ==
  LET all == SetToSeq(1..Len(hand))
      nonWildCards == RegularIdx(hand, rnd)
  IN IF finalTurn THEN HighestOf(hand, rnd, all)
     ELSE IF Len(nonWildCards) > 0 THEN HighestOf(hand, rnd, nonWildCards)
     ELSE LowestOf(hand, rnd, all)

\* Strategy 3: the positions marked used by the per-(suit, rank) counts
RECURSIVE MarkUsed(_, _, _, _)
MarkUsed(hand, melds, index, usedIndices) ==
  IF index > Len(hand) THEN usedIndices
  ELSE LET meldCards == Flatten([k \in 1..Len(melds) |-> melds[k].cards])
           handCount == Cardinality({i \in 1..Len(hand) : SameCard(hand[i], hand[index])})
           meldCount == Cardinality({k \in 1..Len(meldCards) :
                                       SameCard(hand[meldCards[k]], hand[index])})
           markedAsUsed == Cardinality({i \in usedIndices :
                                          i < index /\ SameCard(hand[i], hand[index])})
       IN IF meldCount >= handCount \/ markedAsUsed < meldCount
          THEN MarkUsed(hand, melds, index + 1, usedIndices \cup {index})
          ELSE MarkUsed(hand, melds, index + 1, usedIndices)

\* Strategy 6: unused cards whose removal leaves a hand with at least one meld
ValidDiscards(hand, rnd, unusedCards) ==
  SelectSeq(unusedCards,
            LAMBDA d : Len(hand) - 1 >= 3 /\ Len(findMelds(RemoveAt(hand, d), rnd)) > 0)

\* Strategies 6 and 7: highest non-wild card of the list, else lowest wild, else 0
PreferNonWild(hand, rnd, list) ==
  LET nonWild == SelectSeq(list, LAMBDA c : ~isWildCard(hand[c], rnd))
      wild == SelectSeq(list, LAMBDA c : isWildCard(hand[c], rnd))
  IN IF Len(nonWild) > 0 THEN HighestOf(hand, rnd, nonWild)
     ELSE IF Len(wild) > 0 THEN LowestOf(hand, rnd, wild)
     ELSE 0

\* the hand position of the suggested card; 0 for null
suggestDiscard(hand, rnd, melds, finalTurn) ==
  LET goOut == GoOutDiscard(hand, rnd)
      unusedCards == SetToSeq((1..Len(hand)) \ MarkUsed(hand, melds, 1, {}))
      validDiscards == ValidDiscards(hand, rnd, unusedCards)
  IN IF Len(hand) = 0 THEN 0
     ELSE IF goOut # 0 THEN goOut
     ELSE IF Len(melds) = 0 THEN NoMeldDiscard(hand, rnd, finalTurn)
     ELSE IF Len(unusedCards) = 0 THEN LowestOf(hand, rnd, SetToSeq(1..Len(hand)))
     ELSE IF Len(unusedCards) = Len(hand) THEN NoMeldDiscard(hand, rnd, finalTurn)
     ELSE IF Len(validDiscards) > 0 THEN PreferNonWild(hand, rnd, validDiscards)
     ELSE IF PreferNonWild(hand, rnd, unusedCards) # 0 THEN PreferNonWild(hand, rnd, unusedCards)
     ELSE unusedCards[1]

---------------------------------------------------------------------------
(* Meld Helper: the melds shown, runs sorted for display *)

RECURSIVE DisplayFill(_, _, _, _, _, _, _)
\* the loop over the ranks from the first to the last regular card of a run:
\* the next regular card when it has the expected rank, otherwise the next
\* wild card when one is left, otherwise nothing
DisplayFill(hand, regularCards, wildCards, i, lastRankIndex, regularIndex, wildIndex) ==
  IF i > lastRankIndex
  THEN SubSeq(wildCards, wildIndex, Len(wildCards))
  ELSE IF regularIndex <= Len(regularCards)
          /\ RankIndex(hand[regularCards[regularIndex]].rank) = i
       THEN <<regularCards[regularIndex]>>
              \o DisplayFill(hand, regularCards, wildCards, i + 1, lastRankIndex,
                             regularIndex + 1, wildIndex)
       ELSE IF wildIndex <= Len(wildCards)
       THEN <<wildCards[wildIndex]>>
              \o DisplayFill(hand, regularCards, wildCards, i + 1, lastRankIndex,
                             regularIndex, wildIndex + 1)
       ELSE DisplayFill(hand, regularCards, wildCards, i + 1, lastRankIndex,
                        regularIndex, wildIndex)

\* the cards of a chosen run as the screen lists them
DisplayRun(hand, rnd, runCards) ==
  LET regularCards == SortByRank(hand, SelectSeq(runCards, LAMBDA c : ~isWildCard(hand[c], rnd)))
      wildCards == SelectSeq(runCards, LAMBDA c : isWildCard(hand[c], rnd))
      rankWilds == SortByRank(hand, SelectSeq(wildCards, LAMBDA c : hand[c].rank # "Joker"))
      jokers == SelectSeq(wildCards, LAMBDA c : hand[c].rank = "Joker")
  IN IF Len(regularCards) > 0
     THEN DisplayFill(hand, regularCards, wildCards,
                      RankIndex(hand[regularCards[1]].rank),
                      RankIndex(hand[regularCards[Len(regularCards)]].rank), 1, 1)
     ELSE rankWilds \o jokers

\* bestCombination and melds of the screen
bestCombination(hand, rnd) ==
  IF Len(hand) >= 3 THEN findBestMeldCombinationForHelper(hand, rnd)
  ELSE [melds |-> <<>>, leftoverCards |-> SetToSeq(1..Len(hand)), canGoOut |-> FALSE]

DisplayMelds(hand, rnd) ==
  LET best == bestCombination(hand, rnd).melds
  IN [k \in 1..Len(best) |->
        IF best[k].type = "run"
        THEN [type |-> "run", cards |-> DisplayRun(hand, rnd, best[k].cards)]
        ELSE best[k]]

---------------------------------------------------------------------------
(* Draw Advisor *)

RECURSIVE SumPoints(_, _)
\* the point values of a set of cards added up
SumPoints(cardSet, rnd) ==
  IF cardSet = {} THEN 0
  ELSE LET c == CHOOSE x \in cardSet : TRUE
       IN calculateCardPoints(c, rnd) + SumPoints(cardSet \ {c}, rnd)

RECURSIVE HandValue(_, _)
\* hand.reduce((sum, card) => sum + calculateCardPoints(card, round), 0)
HandValue(hand, rnd) ==
  IF hand = <<>> THEN 0
  ELSE calculateCardPoints(Head(hand), rnd) + HandValue(Tail(hand), rnd)

\* calculateMeldValue: every suit-rank key of the melds counted once
calculateMeldValue(hand, melds, rnd) ==
  SumPoints(UNION {{hand[melds[k].cards[i]] : i \in 1..Len(melds[k].cards)} :
                     k \in 1..Len(melds)}, rnd)

\* a faulty variant of the wild test that knows Jokers only
isDiscardJoker(discardCard, rnd) == discardCard.rank = "Joker"

isDiscardWild(discardCard, rnd) ==
  isWildCard(discardCard, rnd)

\* the figures and the recommendation of DrawRecommendation; melds are melds
\* of the hand
DrawRecommendation(discardCard, hand, rnd, melds) ==
  LET handWithDiscard == Append(hand, discardCard)
      meldsWithDiscard == findMelds(handWithDiscard, rnd)
      currentMeldValue == calculateMeldValue(hand, melds, rnd)
      newMeldValue == calculateMeldValue(handWithDiscard, meldsWithDiscard, rnd)
      currentRemaining == HandValue(hand, rnd) - currentMeldValue
      newRemaining == HandValue(handWithDiscard, rnd) - newMeldValue
      improvement == currentRemaining - newRemaining
      discardPoints == calculateCardPoints(discardCard, rnd)
      discardHelpsMelds == Len(meldsWithDiscard) > Len(melds) \/ newMeldValue > currentMeldValue
      recommendation ==
        IF isDiscardWild(discardCard, rnd) THEN "take"
        ELSE IF discardHelpsMelds /\ improvement > 0 THEN "take"
        ELSE IF discardHelpsMelds THEN (IF discardPoints <= 5 THEN "take" ELSE "maybe")
        ELSE IF discardPoints <= 3 THEN "maybe"
        ELSE IF discardPoints >= 10 THEN "skip"
        ELSE "maybe"
  IN [recommendation |-> recommendation,
      currentRemaining |-> currentRemaining,
      newRemaining |-> newRemaining]

---------------------------------------------------------------------------
(* Game: deck, dealing and the state of the reducer *)

DeckSize == 116

\* the card at place id of the deck createDeck builds before it shuffles: two
\* copies of 5 suits x 11 ranks, then six Jokers of clubs
DeckCard(id) ==
  IF id > 110 THEN Card("clubs", "Joker")
  ELSE Card(SUITS[(((id - 1) % 55) \div 11) + 1], RANK_ORDER[((id - 1) % 11) + 1])

\* shuffle: the orders of the deck the model draws from, cards named by their
\* place in the unshuffled deck
Shuffles ==
  {[k \in 1..DeckSize |-> k],
   [k \in 1..DeckSize |-> ((k * 37) % DeckSize) + 1]}

getCardsPerRound(r) == r + 2

roundNumberToRound(roundNumber) ==
  IF roundNumber \in 1..11 THEN RANK_ORDER[roundNumber] ELSE "3"

\* the cards of a hand of the game
HandCards(hand) == [k \in 1..Len(hand) |-> DeckCard(hand[k])]

NoPlayer == -1
NoCard == 0

\* the dealing loop of START_GAME and START_ROUND
DealHands(d, n, cardsPerRound) ==
  [i \in 0..(n - 1) |-> SubSeq(d, i * cardsPerRound + 1, (i + 1) * cardsPerRound)]

\* a faulty variant that turns no card over
DealNoDiscard(d, n, cardsPerRound) ==
  <<>>

DealDiscardPile(d, n, cardsPerRound) ==
  <<d[n * cardsPerRound + 1]>>

DealRemainingDeck(d, n, cardsPerRound) ==
  SubSeq(d, n * cardsPerRound + 2, Len(d))

\* getInitialState without a saved game
GameSetupState ==
  /\ phase = "setup"
  /\ players = 0
  /\ currentRound = 1
  /\ currentPlayerIndex = 0
  /\ dealerIndex = 0
  /\ deck = <<>>
  /\ discardPile = <<>>
  /\ playerHands = <<>>
  /\ roundEnded = FALSE
  /\ finalTurnsTaken = <<>>
  /\ scores = <<>>
  /\ wentOutPlayerIndex = NoPlayer
  /\ playersWhoWentOut = <<>>
  /\ drawnCard = NoCard

---------------------------------------------------------------------------
(* Meld Helper screen *)

\* the screen starts from the hand and round saved in local storage
Init ==
  /\ cards = <<>>
  /\ round \in PoolRounds
  /\ isFinalTurn = FALSE
  /\ GameSetupState

AddCardFrom(pool, max) ==
  /\ Len(cards) < max
  /\ \E c \in pool : cards' = Append(cards, c)
  /\ UNCHANGED <<round, isFinalTurn, gameVars>>

handleAddCard == AddCardFrom(Pool, MaxHand)

handleRemoveCard ==
  /\ \E i \in 1..Len(cards) : cards' = RemoveAt(cards, i)
  /\ UNCHANGED <<round, isFinalTurn, gameVars>>

handleClearAll ==
  /\ Len(cards) > 0
  /\ cards' = <<>>
  /\ UNCHANGED <<round, isFinalTurn, gameVars>>

setRound ==
  /\ \E r \in PoolRounds : r # round /\ round' = r
  /\ UNCHANGED <<cards, isFinalTurn, gameVars>>

Next ==
  \/ handleAddCard
  \/ handleRemoveCard
  \/ handleClearAll
  \/ setRound

Spec == Init /\ [][Next]_vars

\* the same screen driven to longer hands over fewer cards, in one round
InitDeep ==
  /\ cards = <<>>
  /\ round = DeepRound
  /\ isFinalTurn = FALSE
  /\ GameSetupState

handleAddCardDeep == AddCardFrom(DeepPool, MaxDeep)

NextDeep ==
  \/ handleAddCardDeep
  \/ handleRemoveCard
  \/ handleClearAll

SpecDeep == InitDeep /\ [][NextDeep]_vars

\* the same screen driven to hands of five cards over two suits
InitMid ==
  /\ cards = <<>>
  /\ round = MidRound
  /\ isFinalTurn = FALSE
  /\ GameSetupState

handleAddCardMid == AddCardFrom(MidPool, MaxMid)

NextMid ==
  \/ handleAddCardMid
  \/ handleRemoveCard
  \/ handleClearAll

SpecMid == InitMid /\ [][NextMid]_vars

\* the same screen in round 5 with few cards to choose from
InitSmall ==
  /\ cards = <<>>
  /\ round = SmallRound
  /\ isFinalTurn = FALSE
  /\ GameSetupState

handleAddCardSmall == AddCardFrom(SmallPool, MaxHand)

NextSmall ==
  \/ handleAddCardSmall
  \/ handleRemoveCard
  \/ handleClearAll

SpecSmall == InitSmall /\ [][NextSmall]_vars

\* the same screen with every card and every round of the selectors, one card at
\* a time
AllCards == {Card(SUITS[s], RANKS[r]) : s \in 1..Len(SUITS), r \in 1..Len(RANKS)}

InitCards ==
  /\ cards = <<>>
  /\ round = "3"
  /\ isFinalTurn = FALSE
  /\ GameSetupState

handleAddCardAny == AddCardFrom(AllCards, MaxShown)

setRoundAny ==
  /\ \E r \in Range(ROUNDS) : r # round /\ round' = r
  /\ UNCHANGED <<cards, isFinalTurn, gameVars>>

NextCards ==
  \/ handleAddCardAny
  \/ handleRemoveCard
  \/ setRoundAny

SpecCards == InitCards /\ [][NextCards]_vars

\* the same screen started from a long saved hand of one suit
HeartsRange(lo, hi) == [k \in 1..(hi - lo + 1) |-> Card("hearts", RANK_ORDER[lo + k - 1])]

LongHands ==
  {HeartsRange(lo, hi) : lo \in LongLow, hi \in LongHigh}
    \cup UNION {{[k \in 1..(hi - lo) |->
                    IF k < g THEN HeartsRange(lo, hi)[k] ELSE HeartsRange(lo, hi)[k + 1]] :
                  g \in 2..(hi - lo)} : lo \in LongLow, hi \in LongHigh}

InitLong ==
  /\ cards \in LongHands
  /\ round = LongRound
  /\ isFinalTurn = FALSE
  /\ GameSetupState

handleAddCardLong == AddCardFrom(LongPool, MaxLong)

NextLong ==
  \/ handleAddCardLong
  \/ handleClearAll

SpecLong == InitLong /\ [][NextLong]_vars

\* the same screen with a hand that holds no wild card
InitPlain ==
  /\ cards = <<>>
  /\ round = PlainRound
  /\ isFinalTurn = FALSE
  /\ GameSetupState

handleAddCardPlain == AddCardFrom(PlainPool, MaxHand)

NextPlain ==
  \/ handleAddCardPlain
  \/ handleRemoveCard
  \/ handleClearAll

SpecPlain == InitPlain /\ [][NextPlain]_vars

---------------------------------------------------------------------------
(* Game: the reducer driven by the setup, turn and round-end screens *)

InitGame ==
  /\ cards = <<>>
  /\ round = "3"
  /\ isFinalTurn = FALSE
  /\ GameSetupState

\* START_GAME
onStartGame ==
  /\ phase = "setup"
  /\ \E n \in 2..MaxPlayers : \E d \in Shuffles :
       /\ players' = n
       /\ playerHands' = DealHands(d, n, getCardsPerRound(1))
       /\ discardPile' = DealDiscardPile(d, n, getCardsPerRound(1))
       /\ deck' = DealRemainingDeck(d, n, getCardsPerRound(1))
       /\ currentPlayerIndex' = (0 + 1) % n
       /\ finalTurnsTaken' = [i \in 0..(n - 1) |-> FALSE]
       /\ playersWhoWentOut' = [i \in 0..(n - 1) |-> FALSE]
  /\ phase' = "playing"
  /\ currentRound' = 1
  /\ dealerIndex' = 0
  /\ roundEnded' = FALSE
  /\ scores' = <<>>
  /\ wentOutPlayerIndex' = NoPlayer
  /\ drawnCard' = NoCard
  /\ UNCHANGED helperVars

\* cards drawn from the deck since the deal of the current round
DeckDrawn ==
  (DeckSize - players * getCardsPerRound(currentRound) - 1) - Len(deck)

\* DRAW_FROM_DECK for the current player; the button is enabled while the deck
\* is not empty
DRAW_FROM_DECK ==
  /\ Len(deck) > 0
  /\ drawnCard' = deck[1]
  /\ deck' = Tail(deck)
  /\ playerHands' = [playerHands EXCEPT ![currentPlayerIndex] = Append(@, deck[1])]
  /\ UNCHANGED <<phase, players, currentRound, currentPlayerIndex, dealerIndex, discardPile,
                 roundEnded, finalTurnsTaken, scores, wentOutPlayerIndex, playersWhoWentOut>>
  /\ UNCHANGED helperVars

\* a faulty variant that leaves the drawn card on the pile
PileKept(pile) ==
  pile

\* discardPile.slice(0, -1)
PileAfterDraw(pile) ==
  SubSeq(pile, 1, Len(pile) - 1)

\* DRAW_FROM_DISCARD for the current player; the button is shown while the pile
\* has a top card
DRAW_FROM_DISCARD ==
  /\ Len(discardPile) > 0
  /\ drawnCard' = discardPile[Len(discardPile)]
  /\ discardPile' = PileAfterDraw(discardPile)
  /\ playerHands' = [playerHands EXCEPT
                       ![currentPlayerIndex] = Append(@, discardPile[Len(discardPile)])]
  /\ UNCHANGED <<phase, players, currentRound, currentPlayerIndex, dealerIndex, deck,
                 roundEnded, finalTurnsTaken, scores, wentOutPlayerIndex, playersWhoWentOut>>
  /\ UNCHANGED helperVars

\* the draw buttons are shown while no card is drawn (!hasDrawn)
CanDraw ==
  phase = "playing" /\ drawnCard = NoCard

\* the draws the model explores: the first round is played, and when its scores
\* are entered the second round is dealt; before a player has gone out up to
\* MaxDeckDraws cards are drawn from the deck and the pile is drawn from in the
\* first turn of the round; the final turns are explored in full
onDrawFromDeck ==
  /\ CanDraw
  /\ scores = <<>>
  /\ roundEnded \/ DeckDrawn < MaxDeckDraws
  /\ DRAW_FROM_DECK

onDrawFromDiscard ==
  /\ CanDraw
  /\ scores = <<>>
  /\ roundEnded \/ (DeckDrawn = 0 /\ currentPlayerIndex = (dealerIndex + 1) % players)
  /\ DRAW_FROM_DISCARD

\* a faulty variant in which the last player to go out is recorded
LastToGoOut(ended, before, playerIndex) ==
  playerIndex

\* isFirstToGoOut ? action.playerIndex : state.wentOutPlayerIndex
WentOutAfterTry(ended, before, playerIndex) ==
  IF ~ended THEN playerIndex ELSE before

\* handleTryGoOut of the turn screen, whose loop over the cards of the hand
\* finds one that can be discarded: it dispatches TRY_GO_OUT at once
onTryGoOut ==
  /\ phase = "playing"
  /\ drawnCard # NoCard
  /\ \E discardIndex \in 1..Len(playerHands[currentPlayerIndex]) :
       canGoOutWithHand(
         RemoveAt(HandCards(playerHands[currentPlayerIndex]), discardIndex),
         findMelds(RemoveAt(HandCards(playerHands[currentPlayerIndex]), discardIndex),
                   roundNumberToRound(currentRound)))
  /\ finalTurnsTaken' = [finalTurnsTaken EXCEPT ![currentPlayerIndex] = TRUE]
  /\ playersWhoWentOut' = [playersWhoWentOut EXCEPT ![currentPlayerIndex] = TRUE]
  /\ roundEnded' = TRUE
  /\ wentOutPlayerIndex' = WentOutAfterTry(roundEnded, wentOutPlayerIndex, currentPlayerIndex)
  /\ UNCHANGED <<phase, players, currentRound, currentPlayerIndex, dealerIndex, deck,
                 discardPile, playerHands, scores, drawnCard>>
  /\ UNCHANGED helperVars

\* newFinalTurnsTaken.every((taken, idx) => idx === state.wentOutPlayerIndex || taken)
allTaken(taken, wentOut) ==
  \A idx \in DOMAIN taken : idx = wentOut \/ taken[idx]

\* DISCARD_CARD for the current player, dispatched by handleDiscard after a draw
DISCARD_CARD(cardIndex) ==
  /\ phase = "playing"
  /\ drawnCard # NoCard
  /\ playerHands' = [playerHands EXCEPT ![currentPlayerIndex] = RemoveAt(@, cardIndex)]
  /\ discardPile' = Append(discardPile, playerHands[currentPlayerIndex][cardIndex])
  /\ drawnCard' = NoCard
  /\ LET newFinalTurnsTaken ==
           IF roundEnded THEN [finalTurnsTaken EXCEPT ![currentPlayerIndex] = TRUE]
           ELSE finalTurnsTaken
     IN IF roundEnded /\ allTaken(newFinalTurnsTaken, wentOutPlayerIndex)
        THEN /\ phase' = "roundEnd"
             /\ UNCHANGED <<currentPlayerIndex, finalTurnsTaken>>
        ELSE /\ phase' = phase
             /\ currentPlayerIndex' = (currentPlayerIndex + 1) % players
             /\ finalTurnsTaken' = newFinalTurnsTaken
  /\ UNCHANGED <<players, currentRound, dealerIndex, deck, roundEnded, scores,
                 wentOutPlayerIndex, playersWhoWentOut>>
  /\ UNCHANGED helperVars

onDiscard ==
  /\ phase = "playing"
  /\ \E cardIndex \in 1..Len(playerHands[currentPlayerIndex]) : DISCARD_CARD(cardIndex)

\* playerPoints of the round-end screen
playerPoints(i) ==
  IF playersWhoWentOut[i] THEN 0
  ELSE HandValue(HandCards(playerHands[i]), roundNumberToRound(currentRound))

\* onEnterScores of the round-end screen: ENTER_SCORES, NEXT_ROUND and, before
\* the last round, START_ROUND
onEnterScores ==
  /\ phase = "roundEnd"
  /\ scores' = Append(scores, [i \in 0..(players - 1) |-> playerPoints(i)])
  /\ IF currentRound < 11
     THEN /\ currentRound' = currentRound + 1
          /\ phase' = "playing"
          /\ \E d \in Shuffles :
               /\ playerHands' = DealHands(d, players, getCardsPerRound(currentRound + 1))
               /\ discardPile' = DealDiscardPile(d, players, getCardsPerRound(currentRound + 1))
               /\ deck' = DealRemainingDeck(d, players, getCardsPerRound(currentRound + 1))
          /\ roundEnded' = FALSE
          /\ dealerIndex' = (dealerIndex + 1) % players
          /\ currentPlayerIndex' = (((dealerIndex + 1) % players) + 1) % players
          /\ finalTurnsTaken' = [i \in 0..(players - 1) |-> FALSE]
          /\ wentOutPlayerIndex' = NoPlayer
          /\ playersWhoWentOut' = [i \in 0..(players - 1) |-> FALSE]
          /\ drawnCard' = NoCard
          /\ UNCHANGED players
     ELSE /\ phase' = "gameEnd"
          /\ UNCHANGED <<players, currentRound, currentPlayerIndex, dealerIndex, deck,
                         discardPile, playerHands, roundEnded, finalTurnsTaken,
                         wentOutPlayerIndex, playersWhoWentOut, drawnCard>>
  /\ UNCHANGED helperVars

NextGame ==
  \/ onStartGame
  \/ onDrawFromDeck
  \/ onDrawFromDiscard
  \/ onTryGoOut
  \/ onDiscard
  \/ onEnterScores

SpecGame == InitGame /\ [][NextGame]_vars

\* one round played until the deck is used up and beyond: every player draws
\* from the deck while it has cards and from the pile afterwards, and discards
\* the card drawn
onDrawFromDeckPlain ==
  /\ CanDraw
  /\ DRAW_FROM_DECK

onDrawFromDiscardLate ==
  /\ CanDraw
  /\ roundEnded \/ Len(deck) = 0
  /\ DRAW_FROM_DISCARD

onDiscardDrawn ==
  /\ phase = "playing"
  /\ DISCARD_CARD(Len(playerHands[currentPlayerIndex]))

NextGameLong ==
  \/ onStartGame
  \/ onDrawFromDeckPlain
  \/ onDrawFromDiscardLate
  \/ onTryGoOut
  \/ onDiscardDrawn

SpecGameLong == InitGame /\ [][NextGameLong]_vars

\* the players go on playing: a draw that is possible is made, and so is the
\* discard that follows it
SpecGameLongFair ==
  /\ SpecGameLong
  /\ WF_vars(onDrawFromDeckPlain \/ onDrawFromDiscardLate)
  /\ WF_vars(onDiscardDrawn)

---------------------------------------------------------------------------
(* What the Meld Helper renders for the current state *)

rawMelds == findMelds(cards, round)

WildSet(hand, rnd) == {i \in 1..Len(hand) : isWildCard(hand[i], rnd)}

RunsOf(melds) == {k \in 1..Len(melds) : melds[k].type = "run"}
BooksOf(melds) == {k \in 1..Len(melds) : melds[k].type = "book"}

\* the hand positions d whose removal leaves 3 or more cards that the Selector
\* covers completely
SelectorGoOutSet(hand, rnd) ==
  {d \in 1..Len(hand) :
     /\ Len(hand) - 1 >= 3
     /\ findBestMeldCombination(RemoveAt(hand, d), findMelds(RemoveAt(hand, d), rnd)).usedCards
          = Len(hand) - 1}

---------------------------------------------------------------------------
(* Claims *)

\* C1: whenever some single discard leaves 3+ cards that the Selector covers
\* completely, suggestDiscard returns the card at the first such position, for
\* both isFinalTurn values, and handleTryGoOut reports that position.
C1_GoOutDiscardDominates ==
  LET S == SelectorGoOutSet(cards, round)
  IN S # {} =>
       /\ LET d == suggestDiscard(cards, round, rawMelds, isFinalTurn)
          IN d # 0 /\ SameCard(cards[d], cards[Min(S)])
       /\ handleTryGoOut(cards, round).success
       /\ handleTryGoOut(cards, round).discardIndex = Min(S)

\* C2: the melds the Selector chooses reference hand instances only, and no
\* hand instance appears in more than one chosen meld.
C2_CoverageInvariant ==
  LET best == findBestMeldCombination(cards, rawMelds).melds
  IN /\ \A a \in 1..Len(best) : Range(best[a].cards) \subseteq 1..Len(cards)
     /\ \A a, b \in 1..Len(best) :
          a < b => Range(best[a].cards) \cap Range(best[b].cards) = {}

\* a run is valid: 3+ cards, its non-wild cards of one suit and of pairwise
\* different ranks, and the span of its non-wild ranks at most its card count
ValidRun(hand, rnd, run) ==
  LET reg == {k \in 1..Len(run) : ~isWildCard(hand[run[k]], rnd)}
      idx == {RankIndex(hand[run[k]].rank) : k \in reg}
  IN /\ Len(run) >= 3
     /\ \A k, l \in reg :
          /\ hand[run[k]].suit = hand[run[l]].suit
          /\ k # l => hand[run[k]].rank # hand[run[l]].rank
     /\ \A lo, hi \in idx : hi - lo + 1 <= Len(run)

\* C3: every run returned by findMelds is a valid run.
C3_RunsAreValid ==
  LET melds == rawMelds
  IN \A k \in RunsOf(melds) : ValidRun(cards, round, melds[k].cards)

\* the hand holds a non-wild card of the suit at the rank with index ri
HoldsRegular(hand, rnd, suit, ri) ==
  \E i \in 1..Len(hand) :
    ~isWildCard(hand[i], rnd) /\ hand[i].suit = suit /\ RankIndex(hand[i].rank) = ri

\* the meld is a run made of one non-wild card of the suit at each rank lo..hi
PlainRunOver(hand, rnd, meld, suit, lo, hi) ==
  /\ meld.type = "run"
  /\ Len(meld.cards) = hi - lo + 1
  /\ \A ri \in lo..hi :
       \E k \in 1..Len(meld.cards) :
         LET c == hand[meld.cards[k]]
         IN ~isWildCard(c, rnd) /\ c.suit = suit /\ RankIndex(c.rank) = ri

\* C4: whenever the hand holds non-wild cards of one suit at three or more
\* consecutive ranks, findMelds returns a run of one card at each of them.
C4_RunCompleteness ==
  LET melds == rawMelds
  IN \A suit \in Range(SUITS) : \A lo, hi \in 0..LastRankIndex :
       (hi >= lo + 2 /\ \A ri \in lo..hi : HoldsRegular(cards, round, suit, ri))
         => \E k \in 1..Len(melds) : PlainRunOver(cards, round, melds[k], suit, lo, hi)

\* C5: for a non-empty hand the full-hand check is true exactly when melds
\* exist and the Selector's usedCards equals the size of the hand.
C5_FullHandCheckIsSelector ==
  LET melds == rawMelds
  IN Len(cards) > 0 =>
       (canAllCardsFormMelds(cards, melds, round)
          <=> (Len(melds) > 0
               /\ findBestMeldCombination(cards, melds).usedCards = Len(cards)))

RECURSIVE SubsetsUpTo(_, _)
\* the subsets of S with at most k elements
SubsetsUpTo(S, k) ==
  IF k = 0 THEN {{}}
  ELSE LET P == SubsetsUpTo(S, k - 1) IN P \cup {T \cup {x} : T \in P, x \in S}

\* the cards of the melds numbered by T, one after the other
CardsOfMelds(melds, T) == Flatten([k \in 1..Cardinality(T) |-> melds[SetToSeq(T)[k]].cards])

\* the melds numbered by T can be matched to pairwise disjoint hand cards (a
\* meld card goes to a hand card of its suit and rank): no suit and rank is
\* asked for more often than the hand holds it
MatchableDisjointly(hand, melds, T) ==
  LET mc == CardsOfMelds(melds, T)
  IN \A i \in 1..Len(hand) :
       Cardinality({k \in 1..Len(mc) : SameCard(hand[mc[k]], hand[i])})
         <= Cardinality({j \in 1..Len(hand) : SameCard(hand[j], hand[i])})

\* C6: no subset of findMelds that can be matched to pairwise disjoint hand
\* cards covers more cards than the Selector's usedCards (a meld has 3+ cards,
\* so such a subset has at most Len(hand) \div 3 melds).
C6_SelectorUsesMostCards ==
  LET melds == rawMelds
      used == findBestMeldCombination(cards, melds).usedCards
  IN \A T \in SubsetsUpTo(1..Len(melds), Len(cards) \div 3) :
       MatchableDisjointly(cards, melds, T) => Len(CardsOfMelds(melds, T)) <= used

\* the instance sets of the books the enumeration is to return
ExpectedBooks(hand, rnd) ==
  LET wildCards == WildIdx(hand, rnd)
      W == Len(wildCards)
      regular == {i \in 1..Len(hand) : ~isWildCard(hand[i], rnd)}
      group(i) == {j \in regular : hand[j].rank = hand[i].rank}
  IN {b \in {group(i) \cup Range(Prefix(wildCards, w)) : i \in regular, w \in 0..W} :
        Cardinality(b) >= 3}
     \cup {Range(Prefix(wildCards, n)) : n \in 3..W}

\* C7: for a hand of 3+ cards the books of findMelds are exactly: per rank
\* with r non-wild cards and per w in 0..W with r + w >= 3, all r cards plus the
\* first w wild cards; per size 3..W the first wild cards alone; each once.
C7_BookEnumeration ==
  LET melds == rawMelds
      B == BooksOf(melds)
      expected == ExpectedBooks(cards, round)
  IN Len(cards) >= 3 =>
       /\ {Range(melds[k].cards) : k \in B} = expected
       /\ Cardinality(B) = Cardinality(expected)
       /\ \A k \in B : Cardinality(Range(melds[k].cards)) = Len(melds[k].cards)

\* a hand with W wild cards, a rank of r non-wild cards with r + w >= 3 for
\* several w, and an all-wild book
C7_Witness ==
  /\ Len(cards) = 4
  /\ Cardinality(WildSet(cards, round)) = 3
  /\ Cardinality(BooksOf(rawMelds)) = 3

\* three or more cards, all of one suit and one non-wild rank
AllSameCard(hand, rnd) ==
  /\ Len(hand) >= 3
  /\ \A i \in 1..Len(hand) : SameCard(hand[i], hand[1]) /\ ~isWildCard(hand[i], rnd)

\* C8: a hand of 3+ cards of one suit and one non-wild rank yields exactly one
\* meld, a book of every card of the hand, and no run.
C8_DuplicateCards ==
  LET melds == rawMelds
  IN AllSameCard(cards, round) =>
       /\ Len(melds) = 1
       /\ melds[1].type = "book"
       /\ Range(melds[1].cards) = 1..Len(cards)
       /\ Len(melds[1].cards) = Len(cards)

C8_Witness ==
  AllSameCard(cards, round) /\ Len(rawMelds) = 1

\* positions i, j hold non-wild cards of one suit at ranks a < b with a rank
\* missing between them, no other non-wild card of the suit lies at a rank
\* from a to b, and the hand holds b - a - 1 wild cards or more
GapPair(hand, rnd, i, j) ==
  LET a == RankIndex(hand[i].rank)
      b == RankIndex(hand[j].rank)
  IN /\ ~isWildCard(hand[i], rnd) /\ ~isWildCard(hand[j], rnd)
     /\ hand[i].suit = hand[j].suit
     /\ b - a >= 2
     /\ \A k \in 1..Len(hand) :
          (k \notin {i, j} /\ ~isWildCard(hand[k], rnd) /\ hand[k].suit = hand[i].suit)
            => (RankIndex(hand[k].rank) < a \/ RankIndex(hand[k].rank) > b)
     /\ Cardinality(WildSet(hand, rnd)) >= b - a - 1

\* the meld is a run of exactly cards i, j and n wild cards
GapRun(hand, rnd, meld, i, j, n) ==
  /\ meld.type = "run"
  /\ Len(meld.cards) = n + 2
  /\ Cardinality(Range(meld.cards)) = n + 2
  /\ {i, j} \subseteq Range(meld.cards)
  /\ Range(meld.cards) \ {i, j} \subseteq WildSet(hand, rnd)

\* C9: for such a pair findMelds returns a run of exactly the two cards and
\* b - a - 1 wild cards.
C9_WildGapFill ==
  LET melds == rawMelds
  IN \A i, j \in 1..Len(cards) :
       GapPair(cards, round, i, j) =>
         \E k \in 1..Len(melds) :
           GapRun(cards, round, melds[k], i, j,
                  RankIndex(cards[j].rank) - RankIndex(cards[i].rank) - 1)

\* a gap of two ranks filled by two wild cards
C9_Witness ==
  LET melds == rawMelds
  IN \E i, j \in 1..Len(cards) :
       /\ GapPair(cards, round, i, j)
       /\ RankIndex(cards[j].rank) - RankIndex(cards[i].rank) = 3
       /\ \E k \in 1..Len(melds) : GapRun(cards, round, melds[k], i, j, 2)

AllWild(hand, rnd, meld) == Range(meld.cards) \subseteq WildSet(hand, rnd)

\* C10 as stated: a hand with 3+ wild cards yields a run of wild cards only.
C10_AllWildRun ==
  LET melds == rawMelds
  IN Cardinality(WildSet(cards, round)) >= 3 =>
       \E k \in RunsOf(melds) : AllWild(cards, round, melds[k])

\* C10 amended: a hand with 3+ wild cards yields a meld of wild cards only, and
\* every meld of wild cards only is a book.
C10_AllWildMeldIsBook ==
  LET melds == rawMelds
  IN Cardinality(WildSet(cards, round)) >= 3 =>
       /\ \E k \in 1..Len(melds) : AllWild(cards, round, melds[k])
       /\ \A k \in 1..Len(melds) :
            AllWild(cards, round, melds[k]) => melds[k].type = "book"

\* three wild cards and one regular card, whose suit group holds runs
C10_Witness ==
  LET melds == rawMelds
  IN /\ Cardinality(WildSet(cards, round)) = 3
     /\ Len(cards) = 4
     /\ \E k \in BooksOf(melds) : AllWild(cards, round, melds[k])

\* C11: for a hand with no wild card, every run of findMelds lists cards of one
\* suit whose ranks go up by exactly one step of RANK_ORDER from each card to
\* the next; K is never followed by 3.
C11_NoWraparound ==
  LET melds == rawMelds
  IN WildSet(cards, round) = {} =>
       \A k \in RunsOf(melds) :
         LET run == melds[k].cards
         IN \A p \in 1..(Len(run) - 1) :
              /\ cards[run[p]].suit = cards[run[p + 1]].suit
              /\ RankIndex(cards[run[p + 1]].rank) = RankIndex(cards[run[p]].rank) + 1

\* a hand without wild cards that holds Q, K and 3 of spades next to a run
C11_Witness ==
  /\ WildSet(cards, round) = {}
  /\ {"Q", "K", "3"} \subseteq {cards[i].rank : i \in {j \in 1..Len(cards) : cards[j].suit = "spades"}}
  /\ RunsOf(rawMelds) # {}
\* C12: every run returned by findMelds has at least 3 and at most 11 cards,
\* runs made by extending a filled or extended run with a wild card included.
C12_RunLengthBound ==
  LET melds == rawMelds
  IN \A k \in RunsOf(melds) :
       Len(melds[k].cards) >= 3 /\ Len(melds[k].cards) <= Len(RANK_ORDER)

\* a 13-card hand with two Jokers that has a run of 11 cards, a wild card in it
C12_Witness ==
  LET melds == rawMelds
  IN /\ Len(cards) = 13
     /\ Cardinality({i \in 1..Len(cards) : cards[i].rank = "Joker"}) >= 2
     /\ \E k \in RunsOf(melds) :
          /\ Len(melds[k].cards) = 11
          /\ Range(melds[k].cards) \cap WildSet(cards, round) # {}

\* three cards without wild cards that form a book or a run
FormsOneMeld(h) ==
  /\ Len(h) = 3
  /\ \/ \A i \in 1..3 : h[i].rank = h[1].rank
     \/ /\ \A i \in 1..3 : h[i].suit = h[1].suit /\ RankIndex(h[i].rank) # -1
        /\ \E lo \in 0..(LastRankIndex - 2) :
             {RankIndex(h[i].rank) : i \in 1..3} = lo..(lo + 2)

\* the positions of a 4-card hand whose removal leaves a book or a run
SimpleGoOutSet(hand) == {d \in 1..Len(hand) : FormsOneMeld(RemoveAt(hand, d))}

\* C13: for a 4-card hand without wild cards in which exactly one card's
\* removal leaves a run or a book, suggestDiscard returns that card for both
\* isFinalTurn values and handleTryGoOut reports success with its index.
C13_SimpleGoOut ==
  LET G == SimpleGoOutSet(cards)
      melds == rawMelds
  IN (Len(cards) = 4 /\ WildSet(cards, round) = {} /\ Cardinality(G) = 1) =>
       /\ \A ft \in BOOLEAN : suggestDiscard(cards, round, melds, ft) \in G
       /\ handleTryGoOut(cards, round) = [success |-> TRUE, discardIndex |-> Min(G)]

\* 4, 5, 6 of diamonds and one spade: the spade is the go-out discard
C13_Witness ==
  /\ Len(cards) = 4
  /\ WildSet(cards, round) = {}
  /\ \E d \in 1..4 :
       /\ SimpleGoOutSet(cards) = {d}
       /\ cards[d].suit = "spades"
       /\ {cards[i].rank : i \in (1..4) \ {d}} = {"4", "5", "6"}
       /\ handleTryGoOut(cards, round).discardIndex = d

\* the card at position d of the hand is not wild
NotWildAt(hand, rnd, d) == d \in 1..Len(hand) /\ ~isWildCard(hand[d], rnd)

\* C14 (a): on a regular turn, when the hand holds a non-wild card whose
\* discard lets the player go out, the suggested card is not wild.
C14_GoOutDiscardNotWild ==
  LET S == SelectorGoOutSet(cards, round)
      d == suggestDiscard(cards, round, rawMelds, FALSE)
  IN (\E i \in S : NotWildAt(cards, round, i)) => NotWildAt(cards, round, d)

\* C14 (b): on a regular turn, when no discard lets the player go out and the
\* hand holds a non-wild card, the suggested card is not wild.
C14_NoGoOutDiscardNotWild ==
  LET S == SelectorGoOutSet(cards, round)
      d == suggestDiscard(cards, round, rawMelds, FALSE)
  IN (S = {} /\ \E i \in 1..Len(cards) : NotWildAt(cards, round, i))
       => NotWildAt(cards, round, d)

\* C14: with isFinalTurn = FALSE and melds = findMelds(hand, round),
\* suggestDiscard returns a wild card only when no non-wild card could be
\* suggested instead: both cases above, the go-out discard included.
C14_WildNotSuggested ==
  C14_GoOutDiscardNotWild /\ C14_NoGoOutDiscardNotWild

\* the point value of the card at position i
PointsAt(hand, rnd, i) == calculateCardPoints(hand[i], rnd)

\* position d holds a card of the highest / lowest point value among positions P
HighestIn(hand, rnd, d, P) ==
  d \in P /\ \A i \in P : PointsAt(hand, rnd, i) <= PointsAt(hand, rnd, d)
LowestIn(hand, rnd, d, P) ==
  d \in P /\ \A i \in P : PointsAt(hand, rnd, i) >= PointsAt(hand, rnd, d)

\* C15: when the supplied meld list is empty and no single discard lets the
\* player go out, suggestDiscard returns, on the final turn, a card of the
\* highest point value of the whole hand; otherwise a non-wild card of the
\* highest point value among the non-wild cards, or a wild card of the lowest
\* point value when every card is wild.
C15_NoMeldsRule ==
  LET all == 1..Len(cards)
      nonWild == all \ WildSet(cards, round)
      final == suggestDiscard(cards, round, <<>>, TRUE)
      regular == suggestDiscard(cards, round, <<>>, FALSE)
  IN (Len(cards) > 0 /\ SelectorGoOutSet(cards, round) = {}) =>
       /\ HighestIn(cards, round, final, all)
       /\ IF nonWild # {} THEN HighestIn(cards, round, regular, nonWild)
          ELSE LowestIn(cards, round, regular, all)

\* a King and a Joker in round 5: the Joker on the final turn, the King otherwise
C15_Witness ==
  /\ round = "5"
  /\ Len(cards) = 2 /\ cards[1].rank = "K" /\ cards[2].rank = "Joker"
  /\ suggestDiscard(cards, round, <<>>, TRUE) = 2
  /\ suggestDiscard(cards, round, <<>>, FALSE) = 1

\* the supplied melds hold every (suit, rank) of the hand at least as often as
\* the hand does
AllCardsMelded(hand, melds) ==
  LET meldCards == CardsOfMelds(melds, 1..Len(melds))
  IN \A i \in 1..Len(hand) :
       Cardinality({k \in 1..Len(meldCards) : SameCard(hand[meldCards[k]], hand[i])})
         >= Cardinality({j \in 1..Len(hand) : SameCard(hand[j], hand[i])})

\* C16: when no single discard lets the player go out and the supplied melds
\* hold every (suit, rank) of the hand at least as often as the hand does,
\* suggestDiscard returns the earliest card of the lowest point value.
C16_AllCardsMelded ==
  LET melds == rawMelds
      all == 1..Len(cards)
  IN (Len(cards) > 0 /\ SelectorGoOutSet(cards, round) = {} /\ AllCardsMelded(cards, melds)) =>
       \A ft \in BOOLEAN :
         LET d == suggestDiscard(cards, round, melds, ft)
         IN LowestIn(cards, round, d, all)
            /\ \A i \in all : LowestIn(cards, round, i, all) => d <= i

\* five cards, all of them in melds, no go-out discard, two cards of the lowest value
C16_Witness ==
  LET melds == rawMelds
      all == 1..Len(cards)
  IN /\ Len(cards) = 5
     /\ SelectorGoOutSet(cards, round) = {}
     /\ AllCardsMelded(cards, melds)
     /\ Cardinality({i \in all : LowestIn(cards, round, i, all)}) >= 2

\* meld lists a caller supplies for the current hand: none, every meld found,
\* the melds the Selector chose
SuppliedMelds ==
  {<<>>, rawMelds, findBestMeldCombination(cards, rawMelds).melds}

melds == DisplayMelds(cards, round)

\* C18: whenever the discard candidate is a Joker or has the round's rank, the
\* recommendation is take, whatever the hand and its melds.
C18_WildCandidateTake ==
  \A c \in DiscardPool :
    isWildCard(c, round) =>
      /\ DrawRecommendation(c, cards, round, melds).recommendation = "take"
      /\ DrawRecommendation(c, cards, round, rawMelds).recommendation = "take"

\* a wild candidate of the round's rank that no meld of the hand can use
C18_Witness ==
  /\ Len(cards) = 3
  /\ \E c \in DiscardPool :
       /\ c.rank = round
       /\ DrawRecommendation(c, cards, round, melds).recommendation = "take"
       /\ findMelds(Append(cards, c), round) = <<>>

\* the candidate, appended to the hand, is a card of no meld found there
NoMeldingBenefit(hand, rnd, c) ==
  LET withDiscard == findMelds(Append(hand, c), rnd)
  IN \A k \in 1..Len(withDiscard) :
       \A i \in 1..Len(withDiscard[k].cards) :
         Append(hand, c)[withDiscard[k].cards[i]] # c

\* C19: with the screen's melds as current melds, a candidate that is not
\* wild, is worth 10 points or more and is a card of no meld of the hand plus
\* the candidate is recommended skip, for every non-empty hand.
C19_UselessHighCardSkip ==
  \A c \in DiscardPool :
    ( /\ Len(cards) > 0
      /\ ~isWildCard(c, round)
      /\ calculateCardPoints(c, round) >= 10
      /\ NoMeldingBenefit(cards, round, c) )
    => DrawRecommendation(c, cards, round, melds).recommendation = "skip"

\* the total point value of the cards the Selector leaves unmelded
SelectorLeftoverPoints(hand, rnd) ==
  LET found == findMelds(hand, rnd)
      left == IF Len(found) = 0 THEN 1..Len(hand)
              ELSE SelectGreedy(hand, SortBySizeDesc(found), 1, 1..Len(hand), <<>>).avail
  IN HandValue([n \in 1..Cardinality(left) |-> hand[SetToSeq(left)[n]]], rnd)

\* C20: the current and the with-discard remaining-point figures of the draw
\* recommendation equal the total point value of the cards the Selector leaves
\* unmelded in the hand and in the hand plus the candidate respectively.
C20_RemainingFigures ==
  \A c \in DiscardPool :
    Len(cards) > 0 =>
      LET r == DrawRecommendation(c, cards, round, melds)
      IN /\ r.currentRemaining = SelectorLeftoverPoints(cards, round)
         /\ r.newRemaining = SelectorLeftoverPoints(Append(cards, c), round)

\* the face value of the numeric ranks
FaceValue ==
  [r \in {"3", "4", "5", "6", "7", "8", "9", "10"} |->
     CASE r = "3" -> 3 [] r = "4" -> 4 [] r = "5" -> 5 [] r = "6" -> 6
       [] r = "7" -> 7 [] r = "8" -> 8 [] r = "9" -> 9 [] r = "10" -> 10]

\* the point value of the rules: Joker, round's rank, face card, numeric rank
PointValue(card, rnd) ==
  IF card.rank = "Joker" THEN 50
  ELSE IF card.rank = rnd THEN 20
  ELSE IF card.rank = "J" THEN 11
  ELSE IF card.rank = "Q" THEN 12
  ELSE IF card.rank = "K" THEN 13
  ELSE FaceValue[card.rank]

\* C21: for every card and round calculateCardPoints gives 50 for a Joker, 20
\* for a card of the round's rank, 11, 12, 13 for a non-wild J, Q, K and the face
\* value for a non-wild 3..10, and getCardPoints gives the same value.
C21_PointValues ==
  \A i \in 1..Len(cards) :
    /\ calculateCardPoints(cards[i], round) = PointValue(cards[i], round)
    /\ getCardPoints(cards[i], round) = calculateCardPoints(cards[i], round)

\* a King shown in round K: 20 points, not 13
C21_Witness ==
  /\ round = "K"
  /\ Len(cards) = 1 /\ cards[1].rank = "K"
  /\ calculateCardPoints(cards[1], round) = 20

RunOrderOk(hand, rnd, runCards) ==
  LET regular == {k \in 1..Len(runCards) : ~isWildCard(hand[runCards[k]], rnd)}
  IN regular # {} =>
       /\ Min(regular) = 1
       /\ \A k \in regular :
            RankIndex(hand[runCards[k]].rank) = RankIndex(hand[runCards[1]].rank) + (k - 1)

\* C24: in every run findMelds returns, the non-wild cards are in increasing
\* rank order, a wild card that fills a gap stands at the position of the rank
\* it fills, and a wild card that extends the run stands after the regular cards.
C24_RunCardOrder ==
  LET found == rawMelds
  IN \A k \in 1..Len(found) :
       found[k].type = "run" => RunOrderOk(cards, round, found[k].cards)

\* the place of meld i when the melds are considered in descending card count,
\* equal-size melds in their input order
PlaceOf(found, i) ==
  1 + Cardinality({j \in 1..Len(found) :
                     \/ Len(found[j].cards) > Len(found[i].cards)
                     \/ Len(found[j].cards) = Len(found[i].cards) /\ j < i})

ConsideredOrder(found) ==
  [p \in 1..Len(found) |-> found[CHOOSE i \in 1..Len(found) : PlaceOf(found, i) = p]]

RECURSIVE OneToOne(_, _, _, _)
\* the cards of a meld matched one after the other to free hand positions: the
\* same instance first, otherwise the first free card of equal suit and rank
OneToOne(hand, meldCards, k, free) ==
  IF k > Len(meldCards) THEN [ok |-> TRUE, free |-> free]
  ELSE LET equal == {i \in free : SameCard(hand[i], hand[meldCards[k]])}
       IN IF meldCards[k] \in free
          THEN OneToOne(hand, meldCards, k + 1, free \ {meldCards[k]})
          ELSE IF equal # {}
          THEN OneToOne(hand, meldCards, k + 1, free \ {Min(equal)})
          ELSE [ok |-> FALSE, free |-> free]

RECURSIVE GreedyAccepted(_, _, _, _)
\* the melds accepted when each is considered once, in order, and accepted
\* exactly when it can be matched to positions no earlier accepted meld uses
GreedyAccepted(hand, ordered, k, free) ==
  IF k > Len(ordered) THEN <<>>
  ELSE LET m == OneToOne(hand, ordered[k].cards, 1, free)
       IN IF m.ok THEN <<ordered[k]>> \o GreedyAccepted(hand, ordered, k + 1, m.free)
          ELSE GreedyAccepted(hand, ordered, k + 1, free)

RECURSIVE SumOfSizes(_)
SumOfSizes(chosen) ==
  IF chosen = <<>> THEN 0 ELSE Len(Head(chosen).cards) + SumOfSizes(Tail(chosen))

CoveredByMelds(h, rnd) ==
  LET found == findMelds(h, rnd)
  IN \E T \in SubsetsUpTo(1..Len(found), Len(h) \div 3) :
       /\ T # {}
       /\ \A a, b \in T : a # b => Range(found[a].cards) \cap Range(found[b].cards) = {}
       /\ UNION {Range(found[a].cards) : a \in T} = 1..Len(h)

\* some card of the hand can be discarded so that the remainder is covered
CanGoOutByDiscard(hand, rnd) ==
  \E d \in 1..Len(hand) : CoveredByMelds(RemoveAt(hand, d), rnd)

\* C26: whenever findBestMeldCombinationForHelper reports canGoOut, some card
\* of the hand can be discarded so that the remainder is entirely covered by
\* melds.
C26_HelperGoOutSound ==
  findBestMeldCombinationForHelper(cards, round).canGoOut => CanGoOutByDiscard(cards, round)

---------------------------------------------------------------------------
(* The final turns of a round *)

\* the step is a discard of the current player
DiscardStep ==
  phase = "playing" /\ drawnCard # NoCard /\ drawnCard' = NoCard

\* the player seated just before the player who went out first
LastFinalPlayer ==
  (wentOutPlayerIndex + players - 1) % players

\* the players recorded as having gone out
WentOut ==
  {i \in DOMAIN playersWhoWentOut : playersWhoWentOut[i]}

\* C27: once a player p has gone out first in a round, wentOutPlayerIndex stays
\* p for the rest of the round; each discard passes the turn to the next seat,
\* except that the discard of the player seated just before p ends the round at
\* once; no other step changes the player or the phase, and p never starts
\* another turn.
C27_FinalTurns ==
  [][(phase = "playing" /\ roundEnded) =>
       /\ wentOutPlayerIndex \in 0..(players - 1)
       /\ wentOutPlayerIndex' = wentOutPlayerIndex
       /\ roundEnded'
       /\ IF DiscardStep
          THEN IF currentPlayerIndex = LastFinalPlayer
               THEN phase' = "roundEnd"
               ELSE /\ phase' = "playing"
                    /\ currentPlayerIndex' = (currentPlayerIndex + 1) % players
                    /\ currentPlayerIndex' # wentOutPlayerIndex
          ELSE /\ phase' = "playing"
               /\ currentPlayerIndex' = currentPlayerIndex
       /\ (phase' = "playing" /\ currentPlayerIndex' = wentOutPlayerIndex) => drawnCard' # NoCard
       /\ finalTurnsTaken'[wentOutPlayerIndex]
       /\ \A i \in 0..(players - 1) :
            (phase' = "playing" /\ i # wentOutPlayerIndex) =>
              (finalTurnsTaken'[i] =>
                 (i - wentOutPlayerIndex + players) % players
                   <= (currentPlayerIndex' - wentOutPlayerIndex + players) % players)]_vars

\* a round of three players has ended after a second player went out during the
\* final turns
C27_Witness ==
  /\ phase = "roundEnd"
  /\ players = 3
  /\ Cardinality(WentOut) >= 2
  /\ currentPlayerIndex = LastFinalPlayer

\* C28: a player recorded as having gone out holds, once the discard of that
\* turn is made, a hand that is entirely covered by melds.
C28_WentOutHandMelded ==
  \A p \in DOMAIN playersWhoWentOut :
    (playersWhoWentOut[p] /\ Len(playerHands[p]) = getCardsPerRound(currentRound)) =>
      CoveredByMelds(HandCards(playerHands[p]), roundNumberToRound(currentRound))

---------------------------------------------------------------------------
(* Card conservation *)

RECURSIVE AllHands(_, _)
\* the hands of players i, i + 1, ... laid end to end
AllHands(hands, i) ==
  IF i \notin DOMAIN hands THEN <<>> ELSE hands[i] \o AllHands(hands, i + 1)

\* the cards are exactly the cards of the deck, each once
ExactlyTheDeck(places) ==
  Len(places) = DeckSize /\ Range(places) = 1..DeckSize

\* the deal for n players in round r hands out r + 2 cards each, turns one card
\* over and conserves the cards
DealConserves(d, n, r) ==
  LET hands == DealHands(d, n, getCardsPerRound(r))
  IN /\ \A i \in 0..(n - 1) : Len(hands[i]) = r + 2
     /\ Len(DealDiscardPile(d, n, getCardsPerRound(r))) = 1
     /\ ExactlyTheDeck(DealRemainingDeck(d, n, getCardsPerRound(r))
                         \o DealDiscardPile(d, n, getCardsPerRound(r))
                         \o AllHands(hands, 0))

\* C29: from the deal on, the deck, the discard pile and the hands together are
\* exactly the 116 cards, none lost or duplicated; each hand has round + 2
\* cards, and the hand of the player who has drawn and not yet discarded has
\* round + 3; the deal conserves the cards for 2 to 7 players in rounds 1 to 11.
C29_CardConservation ==
  /\ phase = "setup" =>
       \A d \in Shuffles : \A n \in 2..7 : \A r \in 1..11 : DealConserves(d, n, r)
  /\ phase \in {"playing", "roundEnd"} =>
       /\ ExactlyTheDeck(deck \o discardPile \o AllHands(playerHands, 0))
       /\ \A i \in 0..(players - 1) :
            Len(playerHands[i]) =
              IF phase = "playing" /\ i = currentPlayerIndex /\ drawnCard # NoCard
              THEN currentRound + 3
              ELSE currentRound + 2

\* in a game of three a card is taken from the pile after cards were drawn from
\* the deck and discarded
C29_Witness ==
  /\ phase = "playing"
  /\ players = 3
  /\ drawnCard # NoCard
  /\ DeckDrawn >= 1
  /\ Len(discardPile) = DeckDrawn
  /\ drawnCard \notin Range(discardPile)

---------------------------------------------------------------------------
(* Turns can always be taken *)

\* C30: while the game is being played and the current player has not drawn,
\* the discard pile is not empty, so a card can be drawn even when the deck is
\* used up; and once a player has gone out the round reaches roundEnd.
C30_NoStuckTurn ==
  /\ []((phase = "playing" /\ drawnCard = NoCard) => discardPile # <<>>)
  /\ []((phase = "playing" /\ drawnCard # NoCard) => playerHands[currentPlayerIndex] # <<>>)
  /\ (roundEnded ~> phase = "roundEnd")

\* a round ends after the deck was used up: the final turns drew from the pile
C30_Witness ==
  /\ phase = "roundEnd"
  /\ roundEnded
  /\ Len(deck) = 0

====
